---------------------------- MODULE Spec2Model ----------------------------
(***************************************************************************)
(* Just One More: the contribution ledger of src/unnamed/part_000 (a React *)
(* single-page app).  The store is the `db` state of useDB; the session is *)
(* the `me` state of App; the operations are the event handlers            *)
(* handleOnboard, logout, reset, ContributeFlow.handleSubmit,              *)
(* KeeperView.handleReceive and KeeperView.handleDistribute.  Every        *)
(* handler runs to completion on the snapshot rendered before the event;   *)
(* its setDb(d => ...) updaters are applied in the order they were queued. *)
(*                                                                         *)
(* Strings that the code computes with (container ids) are sequences of    *)
(* one-character strings; strings the code only stores are TLA+ strings.   *)
(* A JavaScript value that may be null/undefined is a sequence of length   *)
(* 0 or 1.                                                                 *)
(***************************************************************************)
EXTENDS Integers, Sequences, FiniteSets, TLC

(* ------------------------------ bounds -------------------------------- *)
\* contributors ever onboarded (uid is fresh each time)
MaxContributors == 2
\* largest quantity chosen in the bulk-upload dropdown (the code offers 1..10)
MaxQty == 2
\* number of handleDistribute runs (each reads the clock)
MaxClock == 2
\* meals held by the store
MaxMeals == 2
\* notifications added to one log (the log keeps NotificationCap of them)
MaxLog == 102
\* quantities handed to generateBulkIds directly: 0..MaxGenQty and LargeQty
MaxGenQty == 12
\* lighthouses in a list handed to the listing
MaxListed == 3
\* contributors in a collection handed to the leaderboard
MaxBoard == 6
LargeQty == 100

(* ------------------------------ strings ------------------------------- *)
Range(s) == {s[i] : i \in 1..Len(s)}

DigitChars == <<"0", "1", "2", "3", "4", "5", "6", "7", "8", "9">>

\* String(n) for a non-negative integer n
RECURSIVE NumToString(_)
NumToString(n) ==
    IF n < 10 THEN <<DigitChars[n + 1]>>
    ELSE NumToString(n \div 10) \o <<DigitChars[(n % 10) + 1]>>

\* String.prototype.padStart(len, ch)
RECURSIVE padStart(_, _, _)
padStart(s, len, ch) ==
    IF Len(s) >= len THEN s ELSE padStart(<<ch>> \o s, len, ch)

RECURSIVE trimStart(_)
trimStart(s) ==
    IF s # <<>> /\ Head(s) = " " THEN trimStart(Tail(s)) ELSE s

RECURSIVE trimEnd(_)
trimEnd(s) ==
    IF s # <<>> /\ s[Len(s)] = " " THEN trimEnd(SubSeq(s, 1, Len(s) - 1)) ELSE s

\* String.prototype.trim()
trim(s) == trimEnd(trimStart(s))

\* a variant of generateBulkIds without the test for an empty base
generateBulkIds_NoEmptyTest(base, quantity) ==
    LET trimmed == trim(base)
        q == IF quantity > 1 THEN quantity ELSE 1
    IN  IF q = 1 THEN <<trimmed>>
        ELSE [i \in 1..q |-> trimmed \o <<"-">> \o padStart(NumToString(i), 2, "0")]

\* a variant of generateBulkIds that builds the ids from the base as typed
generateBulkIds_Untrimmed(base, quantity) ==
    LET trimmed == trim(base)
        q == IF quantity > 1 THEN quantity ELSE 1
    IN  IF trimmed = <<>> THEN <<>>
        ELSE IF q = 1 THEN <<base>>
        ELSE [i \in 1..q |-> base \o <<"-">> \o padStart(NumToString(i), 2, "0")]

\* generateBulkIds(base, quantity)
generateBulkIds(base, quantity) ==
    LET trimmed == trim(base)
        q == IF quantity > 1 THEN quantity ELSE 1
    IN  IF trimmed = <<>> THEN <<>>
        ELSE IF q = 1 THEN <<trimmed>>
        ELSE [i \in 1..q |-> trimmed \o <<"-">> \o padStart(NumToString(i), 2, "0")]

(* ------------------------------ distance ------------------------------ *)
\* Numbers with a fraction are fixed-point: the integer n stands for n / FP.
\* Degrees, radians, sines and kilometres are all kept in that unit, so the
\* model's distances have the resolution of the fourth decimal of the angle.
FP == 10000

\* the product of two fixed-point numbers
Mul(a, b) == (a * b) \div FP

\* the quotient of two fixed-point numbers
Div(a, b) == (a * FP) \div b

\* Math.PI / 2
HALF_PI == 15708

\* toRad: (d * Math.PI) / 180, with Math.PI / 180 taken as 349 / 20000;
\* rounded towards zero, so that toRad(-d) = -toRad(d) as in the code
toRad(d) ==
    IF d < 0 THEN 0 - (((0 - d) * 349) \div 20000) ELSE (d * 349) \div 20000

\* x / 2, rounded towards zero
Half(x) == IF x < 0 THEN 0 - ((0 - x) \div 2) ELSE x \div 2

\* Math.sin for an angle of at most a quarter turn: the series
\* x - x^3/3! + x^5/5! - x^7/7! + x^9/9!, odd in x
SinSeries(x) ==
    LET x2 == Mul(x, x)
        t3 == Mul(x, x2) \div 6
        t5 == Mul(t3, x2) \div 20
        t7 == Mul(t5, x2) \div 42
        t9 == Mul(t7, x2) \div 72
    IN  x - t3 + t5 - t7 + t9

Sin(x) == IF x < 0 THEN 0 - SinSeries(0 - x) ELSE SinSeries(x)

\* Math.cos for an angle of at most a quarter turn: the series
\* 1 - x^2/2! + x^4/4! - x^6/6! + x^8/8!, even in x
Cos(x) ==
    LET x2 == Mul(x, x)
        t2 == x2 \div 2
        t4 == Mul(t2, x2) \div 12
        t6 == Mul(t4, x2) \div 30
        t8 == Mul(t6, x2) \div 56
    IN  FP - t2 + t4 - t6 + t8

\* the largest r in lo..hi with r * r <= n
RECURSIVE SqrtBetween(_, _, _)
SqrtBetween(n, lo, hi) ==
    IF lo >= hi THEN lo
    ELSE LET mid == (lo + hi + 1) \div 2
         IN  IF mid * mid <= n THEN SqrtBetween(n, mid, hi)
             ELSE SqrtBetween(n, lo, mid - 1)

\* Math.sqrt of a fixed-point number between 0 and 4
Sqrt(v) == SqrtBetween(v * FP, 0, 2 * FP)

\* Math.sqrt of a number between 0 and 1 given in units of 1 / FP^2
SqrtFine(w) == SqrtBetween(w, 0, FP)

\* Math.atan of a ratio between 0 and 1: atan(t) = 2 atan(u) with
\* u = t / (1 + sqrt(1 + t^2)), and the series u - u^3/3 + u^5/5 - u^7/7
Atan(t) ==
    LET u  == Div(t, FP + Sqrt(FP + Mul(t, t)))
        u2 == Mul(u, u)
        u3 == Mul(u, u2)
        u5 == Mul(u3, u2)
        u7 == Mul(u5, u2)
    IN  2 * (u - (u3 \div 3) + (u5 \div 5) - (u7 \div 7))

\* Math.atan2(y, x) for y >= 0 and x >= 0
Atan2(y, x) ==
    IF y = 0 THEN 0
    ELSE IF x = 0 THEN HALF_PI
    ELSE IF y <= x THEN Atan(Div(y, x))
    ELSE HALF_PI - Atan(Div(x, y))

\* the Earth radius in km
R == 6371

\* haversineKm(a, b): a and b carry lat and lng in units of 1/FP degree;
\* the distance is in units of 1/FP km.  h is kept in units of 1 / FP^2 (the
\* product of two sines as it is), so that short distances do not vanish.
haversineKm(a, b) ==
    LET dLat == toRad(b.lat - a.lat)
        dLon == toRad(b.lng - a.lng)
        lat1 == toRad(a.lat)
        lat2 == toRad(b.lat)
        h    == Sin(Half(dLat)) * Sin(Half(dLat))
                  + (Mul(Cos(lat1), Cos(lat2)) \div 10)
                      * ((Sin(Half(dLon)) * Sin(Half(dLon))) \div 1000)
        c    == 2 * Atan2(SqrtFine(h), SqrtFine(FP * FP - h))
    IN  R * c

(* ------------------------------ the store ----------------------------- *)
\* coordinates in units of 1/10000 degree
SEED_LIGHTHOUSES ==
    << [id |-> "lh_cpt", lat |-> -339249, lng |-> 184241],
       [id |-> "lh_jhb", lat |-> -262041, lng |-> 280473],
       [id |-> "lh_dbn", lat |-> -298587, lng |-> 310218],
       [id |-> "lh_pta", lat |-> -257479, lng |-> 282293] >>

\* the initial value of useDB's state when localStorage holds nothing
EmptyDB ==
    [contributors |-> <<>>, lighthouses |-> SEED_LIGHTHOUSES,
     meals |-> <<>>, notifications |-> <<>>]

\* { ...old, ...patch }
Merge(old, patch) ==
    [f \in (DOMAIN old) \cup (DOMAIN patch) |->
        IF f \in DOMAIN patch THEN patch[f] ELSE old[f]]

\* Array.prototype.findIndex on ids: the first index, 0 when there is none
FindIndex(arr, id) ==
    IF \E i \in 1..Len(arr) : arr[i].id = id
    THEN CHOOSE i \in 1..Len(arr) :
            /\ arr[i].id = id
            /\ \A j \in 1..(i - 1) : arr[j].id # id
    ELSE 0

\* Array.prototype.find on ids: <<x>> for the first match, <<>> for undefined
Find(arr, id) ==
    IF FindIndex(arr, id) = 0 THEN <<>> ELSE <<arr[FindIndex(arr, id)]>>

\* a variant of api.reset that forgets the seed
reset_NoSeed ==
    [contributors |-> <<>>, lighthouses |-> <<>>,
     meals |-> <<>>, notifications |-> <<>>]

\* api.reset
reset ==
    [contributors |-> <<>>, lighthouses |-> SEED_LIGHTHOUSES,
     meals |-> <<>>, notifications |-> <<>>]

\* api.addContributor
addContributor(d, c) == [d EXCEPT !.contributors = Append(@, c)]

\* a variant of api.updateContributor that forgets the id test
updateContributor_All(d, id, patch) ==
    [d EXCEPT !.contributors = [i \in 1..Len(@) |-> Merge(@[i], patch)]]

\* api.updateContributor
updateContributor(d, id, patch) ==
    [d EXCEPT !.contributors =
        [i \in 1..Len(@) |-> IF @[i].id = id THEN Merge(@[i], patch) ELSE @[i]]]

\* a variant of api.upsertMeal that never looks for the id
upsertMeal_AlwaysAppend(d, meal) == [d EXCEPT !.meals = Append(@, meal)]

\* api.upsertMeal
upsertMeal(d, meal) ==
    LET idx == FindIndex(d.meals, meal.id)
    IN  IF idx > 0
        THEN [d EXCEPT !.meals[idx] = Merge(@, meal)]
        ELSE [d EXCEPT !.meals = Append(@, meal)]

NotificationCap == 100

\* a variant of api.addNotification that never cuts the log
addNotification_NoCap(d, n) == [d EXCEPT !.notifications = <<n>> \o @]

\* api.addNotification
addNotification(d, n) ==
    [d EXCEPT !.notifications =
        SubSeq(<<n>> \o @, 1, IF Len(@) + 1 > NotificationCap
                              THEN NotificationCap ELSE Len(@) + 1)]

(* ---------------------------- persistence ----------------------------- *)
\* JSON.stringify(db): the snapshot as text, one <<key, value>> member per
\* collection, in the order the object was built
JSONstringify(d) ==
    << <<"contributors", d.contributors>>, <<"lighthouses", d.lighthouses>>,
       <<"meals", d.meals>>, <<"notifications", d.notifications>> >>

\* JSON.parse(raw): the object whose fields are the members of the text
JSONparse(raw) ==
    [k \in {raw[i][1] : i \in 1..Len(raw)} |->
        raw[CHOOSE i \in 1..Len(raw) : raw[i][1] = k][2]]

\* loadDB: store is localStorage's item (<<>> when there is none)
loadDB(store) == IF store = <<>> THEN <<>> ELSE <<JSONparse(store[1])>>

\* a variant of saveDB that leaves the notifications out of what it writes
saveDB_WithoutNotifications(store, d, ok) ==
    IF ok THEN <<JSONstringify([d EXCEPT !.notifications = <<>>])>> ELSE store

\* saveDB: localStorage's item after the call; ok is whether setItem succeeds
\* (when it throws, the catch logs the error and the item stays as it was)
saveDB(store, d, ok) == IF ok THEN <<JSONstringify(d)>> ELSE store

\* what a caller of an api method or of a handler gets back: setDb returns
\* undefined, nothing is thrown, and saveDB swallows its own failure
Returned == "undefined"

(* ------------------------------ handlers ------------------------------ *)
\* the ids a contributor may type or scan when logging
Bases ==
    { <<"A">>, <<" ", "A", " ">>, <<"A", "-", "0", "1">>, <<" ">> }

\* the ids a keeper may type or scan: every id logging can produce, and one
\* that is never logged
KeeperIds ==
    UNION { Range(generateBulkIds(b, q)) : b \in Bases, q \in 1..MaxQty }
        \cup { <<"Z">> }

\* the recipient field of the hand-over form ("" when left empty)
Recipients == {"", "Jane"}

\* the lighthouses a contributor selects in the model
SelectableLighthouses == {SEED_LIGHTHOUSES[1], SEED_LIGHTHOUSES[2]}

POINTS_PER_MEAL == 10

MILESTONES == <<1, 5, 10, 25, 50>>

\* a variant of the milestone lookup that skips the first threshold
FindMilestone_SkipFirst(newMeals) ==
    IF \E i \in 2..Len(MILESTONES) : MILESTONES[i] = newMeals
    THEN <<newMeals>>
    ELSE <<>>

\* [1, 5, 10, 25, 50].find((m) => newMeals === m)
FindMilestone(newMeals) ==
    IF \E i \in 1..Len(MILESTONES) : MILESTONES[i] = newMeals
    THEN << MILESTONES[CHOOSE i \in 1..Len(MILESTONES) :
                /\ MILESTONES[i] = newMeals
                /\ \A j \in 1..(i - 1) : MILESTONES[j] # newMeals] >>
    ELSE <<>>

\* the meal record built by handleSubmit for one id
NewMeal(id, profile, selectedLH) ==
    [id |-> id, contributorId |-> profile.id,
     lighthouseId |-> selectedLH.id, status |-> "logged"]

\* ids.forEach((id) => api.upsertMeal(meal))
RECURSIVE UpsertAll(_, _, _, _)
UpsertAll(d, ids, profile, selectedLH) ==
    IF ids = <<>> THEN d
    ELSE UpsertAll(upsertMeal(d, NewMeal(Head(ids), profile, selectedLH)),
                   Tail(ids), profile, selectedLH)

\* a variant of handleSubmit that logs only the first generated id
handleSubmit_FirstOnly(d, profile, qr, quantity, selectedLH) ==
    LET ids == generateBulkIds(qr, quantity)
    IN  IF Len(ids) = 0 THEN d
        ELSE upsertMeal(d, NewMeal(Head(ids), profile, selectedLH))

\* ContributeFlow.handleSubmit: the store after the handler
handleSubmit(d, profile, qr, quantity, selectedLH) ==
    LET ids == generateBulkIds(qr, quantity)
    IN  IF Len(ids) = 0 THEN d
        ELSE UpsertAll(d, ids, profile, selectedLH)

\* a variant of the button's guard that renders it for every meal
ReceiveButtonShown_Always(d, id) == Find(d.meals, id) # <<>>

\* the "Mark received" button of a meal is rendered: the meal is in the
\* inbound list (logged or at_lighthouse) and is not at_lighthouse
ReceiveButtonShown(d, id) ==
    /\ Find(d.meals, id) # <<>>
    /\ Find(d.meals, id)[1].status \in {"logged", "at_lighthouse"}
    /\ Find(d.meals, id)[1].status # "at_lighthouse"

\* KeeperView.handleReceive
handleReceive(d, id) ==
    upsertMeal(d, [id |-> id, status |-> "at_lighthouse"])

\* recipient || "-"
RecipientOrPlaceholder(recipient) ==
    IF recipient = "" THEN "-" ELSE recipient

\* a variant of handleDistribute that thanks the meal's contributorId without
\* looking the contributor up
handleDistribute_ThanksUnchecked(d, id, recipient, t) ==
    LET meal == Find(d.meals, id)
    IN  IF meal = <<>> THEN d
        ELSE addNotification(
                upsertMeal(d, [id |-> id, status |-> "distributed",
                               distributedAt |-> t,
                               recipientName |-> RecipientOrPlaceholder(recipient)]),
                [ts |-> t, contributorId |-> meal[1].contributorId,
                 message |-> [kind |-> "thanks", meal |-> id, count |-> 0]])

\* a variant of handleDistribute that awards the points without counting the
\* meal
handleDistribute_PointsOnly(d, id, recipient, t) ==
    LET meal == Find(d.meals, id)
    IN  IF meal = <<>> THEN d
        ELSE
          LET d1  == upsertMeal(d, [id |-> id, status |-> "distributed",
                                    distributedAt |-> t,
                                    recipientName |-> RecipientOrPlaceholder(recipient)])
              ctr == Find(d.contributors, meal[1].contributorId)
          IN  IF ctr = <<>> THEN d1
              ELSE addNotification(
                      updateContributor(d1, ctr[1].id,
                          [points |-> ctr[1].points + POINTS_PER_MEAL]),
                      [ts |-> t, contributorId |-> ctr[1].id,
                       message |-> [kind |-> "thanks", meal |-> id, count |-> 0]])

\* KeeperView.handleDistribute: the store after the handler, which reads the
\* rendered snapshot d and queues its updates on it; t is nowISO()
handleDistribute(d, id, recipient, t) ==
    LET meal == Find(d.meals, id)
    IN  IF meal = <<>> THEN d
        ELSE
          LET d1  == upsertMeal(d, [id |-> id, status |-> "distributed",
                                    distributedAt |-> t,
                                    recipientName |-> RecipientOrPlaceholder(recipient)])
              ctr == Find(d.contributors, meal[1].contributorId)
          IN  IF ctr = <<>> THEN d1
              ELSE
                LET newPoints == ctr[1].points + POINTS_PER_MEAL
                    newMeals  == ctr[1].mealsContributed + 1
                    milestone == FindMilestone(newMeals)
                    d2 == updateContributor(d1, ctr[1].id,
                              [points |-> newPoints, mealsContributed |-> newMeals])
                    d3 == addNotification(d2,
                              [ts |-> t, contributorId |-> ctr[1].id,
                               message |-> [kind |-> "thanks", meal |-> id, count |-> 0]])
                IN  IF milestone # <<>>
                    THEN addNotification(d3,
                              [ts |-> t, contributorId |-> ctr[1].id,
                               message |-> [kind |-> "milestone", meal |-> <<>>,
                                            count |-> milestone[1]]])
                    ELSE d3

(* ------------------------------ the state ----------------------------- *)
VARIABLES
    db,        \* useDB: the store
    me,        \* App: the session's contributor record, <<>> when logged out
    nextUid,   \* number of contributor uids issued so far
    now,       \* the clock read by nowISO()
    last,      \* the operation that ran last and the status it found
    persisted, \* localStorage's item jom_db_v1, <<>> when there is none
    saved,     \* whether the last saveDB wrote the item: "ok" or "failed"
    args,      \* the arguments of the last direct call of a function
    result,    \* what the last operation gave back to its caller
    pending    \* the setDb updaters queued since the last render, in order

vars == <<db, me, nextUid, now, last, persisted, saved, args, result, pending>>

\* a variant of the commit in which a failed write undoes the update
Commit_Rollback(d, ok) ==
    /\ db' = IF ok THEN d ELSE db
    /\ persisted' = saveDB(persisted, d, ok)
    /\ saved' = IF ok THEN "ok" ELSE "failed"

\* setDb(...) followed by the render and its effect saveDB(db): the store
\* holds d whether or not the write succeeds
Commit(d, ok) ==
    /\ db' = d
    /\ persisted' = saveDB(persisted, d, ok)
    /\ saved' = IF ok THEN "ok" ELSE "failed"

StatusOf(d, id) ==
    IF Find(d.meals, id) = <<>> THEN "absent" ELSE Find(d.meals, id)[1].status

\* useDB's initial state: the loaded snapshot, or the seeded empty store
useDBInitial(store) ==
    IF loadDB(store) # <<>> THEN loadDB(store)[1] ELSE EmptyDB

\* a first visit: nothing stored, the store is seeded, and the effect of the
\* first render has saved it
Init ==
    /\ db = useDBInitial(<<>>)
    /\ me = <<>>
    /\ nextUid = 0
    /\ now = 0
    /\ last = [op |-> "init", pre |-> "none"]
    /\ persisted = saveDB(<<>>, useDBInitial(<<>>), TRUE)
    /\ saved = "ok"
    /\ args = <<>>
    /\ result = Returned
    /\ pending = <<>>

\* Onboarding "Create my profile" -> App.handleOnboard
Onboard ==
    /\ me = <<>>
    /\ nextUid < MaxContributors
    /\ LET ctr == [id |-> nextUid + 1, points |-> 0, mealsContributed |-> 0]
       IN  /\ Commit(addContributor(db, ctr), TRUE)
           /\ me' = <<ctr>>
    /\ nextUid' = nextUid + 1
    /\ last' = [op |-> "onboard", pre |-> "none"]
    /\ result' = Returned
    /\ UNCHANGED <<now, args, pending>>

\* App.logout
Logout ==
    /\ me # <<>>
    /\ me' = <<>>
    /\ last' = [op |-> "logout", pre |-> "none"]
    /\ result' = Returned
    /\ UNCHANGED <<db, nextUid, now, persisted, saved, args, pending>>

\* Settings "Reset demo data"
ResetDemo ==
    /\ me # <<>>
    /\ Commit(reset, TRUE)
    /\ last' = [op |-> "reset",
                pre |-> IF db = EmptyDB THEN "empty" ELSE "populated"]
    /\ result' = Returned
    /\ UNCHANGED <<me, nextUid, now, args, pending>>

\* "Save meal" -> ContributeFlow.handleSubmit
Submit(qr, quantity, selectedLH) ==
    /\ me # <<>>
    /\ qr # <<>>
    /\ LET ids == generateBulkIds(qr, quantity)
           d   == handleSubmit(db, me[1], qr, quantity, selectedLH)
       IN  /\ Len(d.meals) <= MaxMeals
           /\ IF ids = <<>> THEN UNCHANGED <<db, persisted, saved>>
              ELSE Commit(d, TRUE)
           /\ last' = [op |-> "submit",
                       pre |-> IF ids = <<>> THEN "rejected"
                               ELSE IF \E i \in 1..Len(ids) :
                                          StatusOf(db, ids[i]) # "absent"
                                    THEN "dup" ELSE "new"]
    /\ result' = Returned
    /\ UNCHANGED <<me, nextUid, now, args, pending>>

\* "Mark received" -> KeeperView.handleReceive
Receive(id) ==
    /\ me # <<>>
    /\ IF ReceiveButtonShown(db, id)
       THEN Commit(handleReceive(db, id), TRUE)
       ELSE UNCHANGED <<db, persisted, saved>>
    /\ last' = [op |-> "receive", pre |-> StatusOf(db, id)]
    /\ result' = Returned
    /\ UNCHANGED <<me, nextUid, now, args, pending>>

\* "Confirm handover" -> KeeperView.handleDistribute
Distribute(id, recipient) ==
    /\ me # <<>>
    /\ id # <<>>
    /\ now < MaxClock
    /\ now' = now + 1
    /\ IF Find(db.meals, id) = <<>>
       THEN UNCHANGED <<db, persisted, saved>>
       ELSE Commit(handleDistribute(db, id, recipient, now'), TRUE)
    /\ last' = [op |-> "distribute", pre |-> StatusOf(db, id)]
    /\ result' = Returned
    /\ UNCHANGED <<me, nextUid, args, pending>>

Next ==
    \/ Onboard
    \/ Logout
    \/ ResetDemo
    \/ \E qr \in Bases, quantity \in 1..MaxQty, lh \in SelectableLighthouses :
          Submit(qr, quantity, lh)
    \/ \E id \in KeeperIds : Receive(id)
    \/ \E id \in KeeperIds, recipient \in Recipients : Distribute(id, recipient)

\* the app on a device whose localStorage accepts every write
Spec == Init /\ [][Next]_vars

(* ----------------------- the store used directly --------------------- *)
\* the contributor records handed to api.addContributor
ApiContributors ==
    {[id |-> i, points |-> 0, mealsContributed |-> 0] : i \in 1..MaxContributors}

\* the patches handed to api.updateContributor
ApiPatches == {[points |-> POINTS_PER_MEAL, mealsContributed |-> 1]}

\* the meals handed to api.upsertMeal: one id, one owner, a seeded lighthouse
\* and one that is not in the seed
ApiMeals ==
    {[id |-> <<"A">>, contributorId |-> 1, lighthouseId |-> l, status |-> "logged"] :
        l \in {SEED_LIGHTHOUSES[1].id, "lh_nowhere"}}

\* whether a collection holds the id
Presence(arr, id) == IF FindIndex(arr, id) > 0 THEN "present" ELSE "absent"

\* api.addContributor(c), then the render and its saveDB
ApiAddContributor(c, ok) ==
    /\ Len(db.contributors) < MaxContributors
    /\ Commit(addContributor(db, c), ok)
    /\ last' = [op |-> "addContributor", pre |-> Presence(db.contributors, c.id)]
    /\ result' = Returned
    /\ UNCHANGED <<me, nextUid, now, args, pending>>

\* api.updateContributor(id, patch), then the render and its saveDB
ApiUpdateContributor(id, patch, ok) ==
    /\ Commit(updateContributor(db, id, patch), ok)
    /\ last' = [op |-> "updateContributor", pre |-> Presence(db.contributors, id)]
    /\ result' = Returned
    /\ UNCHANGED <<me, nextUid, now, args, pending>>

\* api.upsertMeal(meal), then the render and its saveDB
ApiUpsertMeal(meal, ok) ==
    /\ Commit(upsertMeal(db, meal), ok)
    /\ last' = [op |-> "upsertMeal", pre |-> Presence(db.meals, meal.id)]
    /\ result' = Returned
    /\ UNCHANGED <<me, nextUid, now, args, pending>>

\* api.addNotification(n) with ts: nowISO(), then the render and its saveDB
ApiAddNotification(c, ok) ==
    /\ now < MaxClock
    /\ now' = now + 1
    /\ Commit(addNotification(db,
                 [ts |-> now', contributorId |-> c,
                  message |-> [kind |-> "thanks", meal |-> <<"A">>, count |-> 0]]),
              ok)
    /\ last' = [op |-> "addNotification", pre |-> "none"]
    /\ result' = Returned
    /\ UNCHANGED <<me, nextUid, args, pending>>

\* api.reset(), then the render and its saveDB
ApiReset(ok) ==
    /\ Commit(reset, ok)
    /\ last' = [op |-> "reset",
                pre |-> IF db = EmptyDB THEN "empty" ELSE "populated"]
    /\ result' = Returned
    /\ UNCHANGED <<me, nextUid, now, args, pending>>

NextApi ==
    \/ \E c \in ApiContributors, ok \in BOOLEAN : ApiAddContributor(c, ok)
    \/ \E id \in 1..MaxContributors, patch \in ApiPatches, ok \in BOOLEAN :
          ApiUpdateContributor(id, patch, ok)
    \/ \E meal \in ApiMeals, ok \in BOOLEAN : ApiUpsertMeal(meal, ok)
    \/ \E ok \in BOOLEAN : ApiAddNotification(1, ok)
    \/ \E ok \in BOOLEAN : ApiReset(ok)

\* the object useDB returns, called with any arguments, on a device whose
\* localStorage may refuse a write (quota)
SpecApi == Init /\ [][NextApi]_vars

(* ------------------------- a long notification log -------------------- *)
\* api.addNotification(n) with ts: nowISO(), as often as MaxLog allows
LogNotification ==
    /\ now < MaxLog
    /\ now' = now + 1
    /\ Commit(addNotification(db,
                 [ts |-> now', contributorId |-> 1,
                  message |-> [kind |-> "thanks", meal |-> <<"A">>, count |-> 0]]),
              TRUE)
    /\ last' = [op |-> "addNotification",
                pre |-> IF Len(db.notifications) = NotificationCap
                        THEN "full" ELSE "room"]
    /\ result' = Returned
    /\ UNCHANGED <<me, nextUid, args, pending>>

NextLog ==
    \/ LogNotification
    \/ ApiReset(TRUE)

\* the store receiving more notifications than the log keeps, every write
\* accepted
SpecLog == Init /\ [][NextLog]_vars

(* --------------------- generateBulkIds called directly ----------------- *)
\* the bases handed to generateBulkIds
GenBases ==
    Bases \cup { <<>>, <<" ", " ">>, <<" ", "A">>, <<"A", " ", "B">>,
                 <<"A", "B", "C">>, <<"X">> }

\* the quantities handed to generateBulkIds
GenQuantities == (0..MaxGenQty) \cup {LargeQty}

\* the arguments are chosen, nothing has been called yet
InitIds ==
    /\ db = useDBInitial(<<>>)
    /\ me = <<>>
    /\ nextUid = 0
    /\ now = 0
    /\ last = [op |-> "init", pre |-> "none"]
    /\ persisted = saveDB(<<>>, useDBInitial(<<>>), TRUE)
    /\ saved = "ok"
    /\ args \in GenBases \X GenQuantities
    /\ result = Returned
    /\ pending = <<>>

\* generateBulkIds(base, quantity) on the chosen arguments
CallGenerateBulkIds ==
    /\ last.op = "init"
    /\ result' = generateBulkIds(args[1], args[2])
    /\ last' = [op |-> "generateBulkIds", pre |-> "none"]
    /\ UNCHANGED <<db, me, nextUid, now, persisted, saved, args, pending>>

NextIds == CallGenerateBulkIds

\* the id generator as a function of its arguments
SpecIds == InitIds /\ [][NextIds]_vars

(* ------------------------- the lighthouse listing ---------------------- *)
\* Array.prototype.sort is stable: with c[i, j] the sign of the comparator on
\* the elements at i and j, each element is put behind the last one that
\* does not compare greater.  SortIndex gives the sorted order of 1..n.
RECURSIVE InsertIndex(_, _, _, _)
InsertIndex(sorted, i, c, p) ==
    IF p = 0 \/ c[sorted[p], i] <= 0
    THEN SubSeq(sorted, 1, p) \o <<i>> \o SubSeq(sorted, p + 1, Len(sorted))
    ELSE InsertIndex(sorted, i, c, p - 1)

RECURSIVE SortIndex(_, _)
SortIndex(c, n) ==
    IF n = 0 THEN <<>>
    ELSE InsertIndex(SortIndex(c, n - 1), n, c, n - 1)

\* arr.sort(comparator)
sort(arr, c) == [k \in 1..Len(arr) |-> arr[SortIndex(c, Len(arr))[k]]]

\* the sign of x - y
Sign(x, y) == IF x < y THEN -1 ELSE IF x > y THEN 1 ELSE 0

\* a variant of the comparator in which a null dist always compares greater
compareDist_NullGreater(a, b) ==
    IF a.dist = <<>> THEN 1
    ELSE IF b.dist = <<>> THEN -1
    ELSE Sign(a.dist[1], b.dist[1])

\* (a.dist ?? Infinity) - (b.dist ?? Infinity) as sort() reads it: a null
\* dist is <<>>; Infinity - Infinity is NaN, which sort() takes for 0
compareDist(a, b) ==
    IF a.dist = <<>> THEN (IF b.dist = <<>> THEN 0 ELSE 1)
    ELSE IF b.dist = <<>> THEN -1
    ELSE Sign(a.dist[1], b.dist[1])

\* a variant of the listing that sorts farthest first
enriched_Descending(lighthouses, userCoords) ==
    LET mapped == [i \in 1..Len(lighthouses) |->
                     Merge(lighthouses[i],
                           [dist |-> IF userCoords # <<>>
                                     THEN <<haversineKm(userCoords[1],
                                              [lat |-> lighthouses[i].lat,
                                               lng |-> lighthouses[i].lng])>>
                                     ELSE <<>>])]
        c == [i \in 1..Len(mapped), j \in 1..Len(mapped) |->
                compareDist(mapped[j], mapped[i])]
    IN  sort(mapped, c)

\* LighthouseFinder's enriched: every lighthouse with its dist (null without
\* userCoords), sorted by dist
enriched(lighthouses, userCoords) ==
    LET mapped == [i \in 1..Len(lighthouses) |->
                     Merge(lighthouses[i],
                           [dist |-> IF userCoords # <<>>
                                     THEN <<haversineKm(userCoords[1],
                                              [lat |-> lighthouses[i].lat,
                                               lng |-> lighthouses[i].lng])>>
                                     ELSE <<>>])]
        c == [i \in 1..Len(mapped), j \in 1..Len(mapped) |->
                compareDist(mapped[i], mapped[j])]
    IN  sort(mapped, c)

\* the record Onboarding hands to onComplete: lat and lng are coords?.lat and
\* coords?.lng, undefined (<<>>) when no location was captured
newContributor(id, coords) ==
    [id |-> id,
     lat |-> IF coords = <<>> THEN <<>> ELSE <<coords[1].lat>>,
     lng |-> IF coords = <<>> THEN <<>> ELSE <<coords[1].lng>>,
     points |-> 0, mealsContributed |-> 0]

\* ContributeFlow's myCoords: profile?.lat && profile?.lng ? {lat, lng} : null
myCoords(profile) ==
    IF /\ profile.lat # <<>> /\ profile.lat[1] # 0
       /\ profile.lng # <<>> /\ profile.lng[1] # 0
    THEN <<[lat |-> profile.lat[1], lng |-> profile.lng[1]]>>
    ELSE <<>>

\* a variant of the auto-select effect that takes the first lighthouse listed
autoSelect_FirstListed(selectedLH, coords, lighthouses) ==
    IF selectedLH = <<>> /\ coords # <<>> /\ Len(lighthouses) # 0
    THEN <<lighthouses[1]>>
    ELSE selectedLH

\* ContributeFlow's auto-select effect: selectedLH after the effect; coords
\* is myCoords
autoSelect(selectedLH, coords, lighthouses) ==
    IF selectedLH = <<>> /\ coords # <<>> /\ Len(lighthouses) # 0
    THEN LET c == [i \in 1..Len(lighthouses), j \in 1..Len(lighthouses) |->
                     Sign(haversineKm(coords[1], [lat |-> lighthouses[i].lat,
                                                  lng |-> lighthouses[i].lng]),
                          haversineKm(coords[1], [lat |-> lighthouses[j].lat,
                                                  lng |-> lighthouses[j].lng]))]
         IN  <<sort(lighthouses, c)[1]>>
    ELSE selectedLH

\* the lighthouses handed to the listing: three of the seed, one at the place
\* of the second, and one as far north of the equator as the second is south
RankLighthouses ==
    { SEED_LIGHTHOUSES[1], SEED_LIGHTHOUSES[2], SEED_LIGHTHOUSES[4],
      [id |-> "lh_twin", lat |-> SEED_LIGHTHOUSES[2].lat,
                         lng |-> SEED_LIGHTHOUSES[2].lng],
      [id |-> "lh_north", lat |-> 0 - SEED_LIGHTHOUSES[2].lat,
                          lng |-> SEED_LIGHTHOUSES[2].lng] }

\* the lists of lighthouses handed to the listing
LighthouseLists ==
    UNION { [1..n -> RankLighthouses] : n \in 0..MaxListed }

\* the coordinates a contributor may have: none, places with lat or lng 0,
\* and places in and around the seed
CoordsInputs ==
    { <<>>,
      <<[lat |-> 0, lng |-> 0]>>,
      <<[lat |-> 0, lng |-> 250000]>>,
      <<[lat |-> -300000, lng |-> 250000]>>,
      <<[lat |-> SEED_LIGHTHOUSES[1].lat, lng |-> SEED_LIGHTHOUSES[1].lng]>> }

\* the arguments are chosen, nothing has been called yet
InitRank ==
    /\ db = useDBInitial(<<>>)
    /\ me = <<>>
    /\ nextUid = 0
    /\ now = 0
    /\ last = [op |-> "init", pre |-> "none"]
    /\ persisted = saveDB(<<>>, useDBInitial(<<>>), TRUE)
    /\ saved = "ok"
    /\ args \in [lighthouses : LighthouseLists, coords : CoordsInputs,
                  selectedLH : {<<>>, <<SEED_LIGHTHOUSES[3]>>}]
    /\ result = Returned
    /\ pending = <<>>

\* LighthouseFinder renders the listing for the chosen list and coordinates
CallEnriched ==
    /\ last.op = "init"
    /\ result' = enriched(args.lighthouses, args.coords)
    /\ last' = [op |-> "enriched", pre |-> "none"]
    /\ UNCHANGED <<db, me, nextUid, now, persisted, saved, args, pending>>

\* the auto-select effect runs for a profile with the chosen coordinates
CallAutoSelect ==
    /\ last.op = "init"
    /\ result' = autoSelect(args.selectedLH,
                            myCoords(newContributor(1, args.coords)),
                            args.lighthouses)
    /\ last' = [op |-> "autoSelect", pre |-> "none"]
    /\ UNCHANGED <<db, me, nextUid, now, persisted, saved, args, pending>>

\* Onboarding's "Create my profile" builds the record for the coordinates
CallOnComplete ==
    /\ last.op = "init"
    /\ result' = newContributor(1, args.coords)
    /\ last' = [op |-> "onComplete", pre |-> "none"]
    /\ UNCHANGED <<db, me, nextUid, now, persisted, saved, args, pending>>

\* handleSubmit for a profile with the chosen coordinates; the Save button
\* needs a selected lighthouse (canSubmit)
CallHandleSubmit ==
    /\ last.op = "init"
    /\ args.selectedLH # <<>>
    /\ result' = handleSubmit(db, newContributor(1, args.coords), <<"A">>,
                              MaxQty, args.selectedLH[1])
    /\ last' = [op |-> "handleSubmit", pre |-> "none"]
    /\ UNCHANGED <<db, me, nextUid, now, persisted, saved, args, pending>>

\* ContributeFlow renders LighthouseFinder with userCoords = myCoords for a
\* profile with the chosen coordinates
CallFinder ==
    /\ last.op = "init"
    /\ result' = enriched(args.lighthouses,
                          myCoords(newContributor(1, args.coords)))
    /\ last' = [op |-> "finder", pre |-> "none"]
    /\ UNCHANGED <<db, me, nextUid, now, persisted, saved, args, pending>>

NextRank ==
    \/ CallEnriched
    \/ CallFinder
    \/ CallAutoSelect
    \/ CallOnComplete
    \/ CallHandleSubmit

\* the lighthouse listing, the auto-selection and the contribute form as
\* functions of the list, the coordinates and the selection
SpecRank == InitRank /\ [][NextRank]_vars

(* ------------------------------ the impact ----------------------------- *)
\* Impact's delivered: the meals of the store with contributorId me.id and
\* status distributed
delivered(d, profile) ==
    Cardinality({i \in 1..Len(d.meals) :
                    /\ d.meals[i].contributorId = profile.id
                    /\ d.meals[i].status = "distributed"})

\* Impact's badges, as the thresholds of the badges earned: count is delivered
badges(count) == SelectSeq(MILESTONES, LAMBDA t : count >= t)

\* the points Impact shows: me.points || 0
pointsShown(profile) == profile.points

(* ---------------------------- the leaderboard -------------------------- *)
TOP_N == 5

\* a variant of the leaderboard that sorts the collection itself
topContributors_InPlace(contributors) ==
    LET c == [i \in 1..Len(contributors), j \in 1..Len(contributors) |->
                Sign(contributors[j].points, contributors[i].points)]
        sorted == sort(contributors, c)
    IN  [top |-> SubSeq(sorted, 1, IF Len(sorted) < TOP_N THEN Len(sorted) ELSE TOP_N),
         contributors |-> sorted]

\* Impact's topContributors: [...db.contributors].sort(by points, descending)
\* .slice(0, 5).  sort() reorders the array it is called on, here the copy;
\* `contributors` is db.contributors after the call
topContributors(contributors) ==
    LET copy == contributors
        c == [i \in 1..Len(copy), j \in 1..Len(copy) |->
                Sign(copy[j].points, copy[i].points)]
        sorted == sort(copy, c)
    IN  [top |-> SubSeq(sorted, 1, IF Len(sorted) < TOP_N THEN Len(sorted) ELSE TOP_N),
         contributors |-> contributors]

\* the points a contributor of a collection handed to the leaderboard has
BoardPoints == {0, POINTS_PER_MEAL, 2 * POINTS_PER_MEAL}

\* the collections handed to the leaderboard: ids count from 1 in collection
\* order
BoardInputs ==
    UNION { { [i \in 1..n |-> [id |-> i, points |-> pts[i],
                                mealsContributed |-> pts[i] \div POINTS_PER_MEAL]] :
                pts \in [1..n -> BoardPoints] } : n \in 0..MaxBoard }

\* the collection is chosen, nothing has been called yet
InitBoard ==
    /\ db = useDBInitial(<<>>)
    /\ me = <<>>
    /\ nextUid = 0
    /\ now = 0
    /\ last = [op |-> "init", pre |-> "none"]
    /\ persisted = saveDB(<<>>, useDBInitial(<<>>), TRUE)
    /\ saved = "ok"
    /\ args \in BoardInputs
    /\ result = Returned
    /\ pending = <<>>

\* Impact renders the leaderboard of the chosen collection
CallTopContributors ==
    /\ last.op = "init"
    /\ result' = topContributors(args)
    /\ last' = [op |-> "topContributors", pre |-> "none"]
    /\ UNCHANGED <<db, me, nextUid, now, persisted, saved, args, pending>>

NextBoard == CallTopContributors

\* the leaderboard as a function of the contributors collection
SpecBoard == InitBoard /\ [][NextBoard]_vars

(* -------------------- updates queued until the render ---------------- *)
\* KeeperView.handleDistribute as the calls it makes: the updaters it hands to
\* setDb, in order. d is the snapshot the handler was rendered with, t is
\* nowISO(). The patch of updateContributor holds the new counters themselves,
\* computed from d.
distributeUpdaters(d, id, recipient, t) ==
    LET meal == Find(d.meals, id)
    IN  IF meal = <<>> THEN <<>>
        ELSE
          LET u1  == [api |-> "upsertMeal", id |-> <<>>,
                      arg |-> [id |-> id, status |-> "distributed",
                               distributedAt |-> t,
                               recipientName |-> RecipientOrPlaceholder(recipient)]]
              ctr == Find(d.contributors, meal[1].contributorId)
          IN  IF ctr = <<>> THEN <<u1>>
              ELSE
                LET newPoints == ctr[1].points + POINTS_PER_MEAL
                    newMeals  == ctr[1].mealsContributed + 1
                    milestone == FindMilestone(newMeals)
                    u2 == [api |-> "updateContributor", id |-> ctr[1].id,
                           arg |-> [points |-> newPoints,
                                    mealsContributed |-> newMeals]]
                    u3 == [api |-> "addNotification", id |-> <<>>,
                           arg |-> [ts |-> t, contributorId |-> ctr[1].id,
                                    message |-> [kind |-> "thanks", meal |-> id,
                                                 count |-> 0]]]
                    u4 == [api |-> "addNotification", id |-> <<>>,
                           arg |-> [ts |-> t, contributorId |-> ctr[1].id,
                                    message |-> [kind |-> "milestone",
                                                 meal |-> <<>>,
                                                 count |-> milestone[1]]]]
                IN  IF milestone # <<>> THEN <<u1, u2, u3, u4>>
                    ELSE <<u1, u2, u3>>

\* one queued updater applied to the state it is given
applyUpdater(d, u) ==
    CASE u.api = "upsertMeal"        -> upsertMeal(d, u.arg)
      [] u.api = "updateContributor" -> updateContributor(d, u.id, u.arg)
      [] u.api = "addNotification"   -> addNotification(d, u.arg)

\* a variant of the render that applies only the first queued updater
applyPending_FirstOnly(d, us) ==
    IF us = <<>> THEN d ELSE applyUpdater(d, Head(us))

\* the render: the queued updaters applied in order, each to the result of
\* the one before it
RECURSIVE applyPending(_, _)
applyPending(d, us) ==
    IF us = <<>> THEN d
    ELSE applyPending(applyUpdater(d, Head(us)), Tail(us))

\* "Confirm handover" up to the handler's return: the updaters are queued, the
\* rendered snapshot and the stored item are as before
InvokeDistribute(id, recipient) ==
    /\ me # <<>>
    /\ id # <<>>
    /\ now < MaxClock
    /\ now' = now + 1
    /\ pending' = pending \o distributeUpdaters(db, id, recipient, now')
    /\ last' = [op |-> "invoke", pre |-> StatusOf(db, id)]
    /\ result' = Returned
    /\ UNCHANGED <<db, me, nextUid, persisted, saved, args>>

\* the render that follows: the queue is applied, and the effect saves the
\* new snapshot
Render ==
    /\ pending # <<>>
    /\ Commit(applyPending(db, pending), TRUE)
    /\ pending' = <<>>
    /\ last' = [op |-> "render", pre |-> "none"]
    /\ result' = Returned
    /\ UNCHANGED <<me, nextUid, now, args>>

\* the other operations run on a rendered store with nothing queued
Quiescent ==
    /\ pending = <<>>
    /\ \/ Onboard
       \/ ResetDemo
       \/ \E qr \in Bases, quantity \in 1..MaxQty, lh \in SelectableLighthouses :
             Submit(qr, quantity, lh)

NextBatch ==
    \/ Quiescent
    \/ \E id \in KeeperIds, recipient \in Recipients :
          InvokeDistribute(id, recipient)
    \/ Render

\* the app with setDb as React specifies it: an updater is queued when it is
\* handed over and applied at the next render, and a handler reads the
\* snapshot of the render that created it
SpecBatch == Init /\ [][NextBatch]_vars

(* ------------------- the keeper's handlers called directly ----------- *)
\* KeeperView.handleReceive called with any id, listed or not; the meal list
\* stays within MaxMeals
CallHandleReceive(id) ==
    /\ me # <<>>
    /\ Len(handleReceive(db, id).meals) <= MaxMeals
    /\ Commit(handleReceive(db, id), TRUE)
    /\ last' = [op |-> "receive", pre |-> StatusOf(db, id)]
    /\ result' = Returned
    /\ UNCHANGED <<me, nextUid, now, args, pending>>

NextKeeper ==
    \/ Onboard
    \/ Logout
    \/ \E qr \in Bases, quantity \in 1..MaxQty, lh \in SelectableLighthouses :
          Submit(qr, quantity, lh)
    \/ \E id \in KeeperIds : CallHandleReceive(id)

\* the app with handleReceive as a function of the id it is given
SpecKeeper == Init /\ [][NextKeeper]_vars

(* ------------------------------ claims -------------------------------- *)
ContributorIds(d) == {d.contributors[i].id : i \in 1..Len(d.contributors)}

LighthouseIds(d) == {d.lighthouses[i].id : i \in 1..Len(d.lighthouses)}

\* the record stored for an id that the collection holds
Get(arr, id) == Find(arr, id)[1]

\* every record of arr other than the one for id is the same, at the same
\* place, in arr2
OthersUnchanged(arr, arr2, id) ==
    /\ Len(arr2) = Len(arr)
    /\ \A i \in 1..Len(arr) : arr[i].id # id => arr2[i] = arr[i]

\* C1: once a meal is distributed, a further distribute of the same id is
\* rejected: the contributors (points, mealsContributed) and the notification
\* log stay exactly as the first distribute left them.
C1_SecondDistributeRejected ==
    [][\A id \in KeeperIds, r \in Recipients :
         (Distribute(id, r) /\ StatusOf(db, id) = "distributed")
            => /\ db'.contributors = db.contributors
               /\ db'.notifications = db.notifications]_vars

\* the statuses a meal of status s may have after a step
AllowedNext(s) ==
    CASE s = "logged"        -> {"logged", "at_lighthouse", "distributed"}
      [] s = "at_lighthouse" -> {"at_lighthouse", "distributed"}
      [] OTHER               -> {"distributed"}

\* C2: in every step other than a reset, every meal of the store stays in the
\* store and its status stays or advances along logged -> at_lighthouse ->
\* distributed (or logged -> distributed); distributed is kept for ever.
C2_StatusOnlyAdvances ==
    [][last'.op # "reset" =>
         \A i \in 1..Len(db.meals) :
            StatusOf(db', db.meals[i].id) \in AllowedNext(db.meals[i].status)]_vars

C4_DistributeCreditsOwner ==
    [][\A id \in KeeperIds, r \in Recipients :
         (Distribute(id, r) /\ StatusOf(db, id) \in {"logged", "at_lighthouse"})
            => LET owner == Get(db.meals, id).contributorId
               IN  /\ StatusOf(db', id) = "distributed"
                   /\ Get(db'.meals, id).distributedAt = now'
                   /\ Get(db'.meals, id).recipientName = (IF r = "" THEN "-" ELSE r)
                   /\ OthersUnchanged(db.meals, db'.meals, id)
                   /\ OthersUnchanged(db.contributors, db'.contributors, owner)
                   /\ \E i \in 1..Len(db.contributors) :
                        /\ db.contributors[i].id = owner
                        /\ db'.contributors[i].points =
                              db.contributors[i].points + 10
                        /\ db'.contributors[i].mealsContributed =
                              db.contributors[i].mealsContributed + 1]_vars

\* the notifications a step put in front of the log
Added(d, d2) ==
    SubSeq(d2.notifications, 1, Len(d2.notifications) - Len(d.notifications))

\* C5: a distribution of a logged or at_lighthouse meal adds, for the owning
\* contributor, exactly one thank-you notification and, if and only if the
\* contributor's new mealsContributed is one of 1, 5, 10, 25, 50, exactly one
\* milestone notification (for that count), and nothing else.
C5_ThanksAndMilestone ==
    [][\A id \in KeeperIds, r \in Recipients :
         (Distribute(id, r) /\ StatusOf(db, id) \in {"logged", "at_lighthouse"})
            => LET owner  == Get(db.meals, id).contributorId
                   count  == IF Find(db'.contributors, owner) = <<>> THEN 0
                             ELSE Get(db'.contributors, owner).mealsContributed
                   added  == Added(db, db')
                   thanks == {i \in 1..Len(added) :
                                added[i].message.kind = "thanks"}
                   miles  == {i \in 1..Len(added) :
                                /\ added[i].message.kind = "milestone"
                                /\ added[i].message.count = count}
               IN  /\ Len(db'.notifications) >= Len(db.notifications)
                   /\ db'.notifications = added \o db.notifications
                   /\ \A i \in 1..Len(added) : added[i].contributorId = owner
                   /\ Cardinality(thanks) = 1
                   /\ Cardinality(miles) =
                        (IF count \in {1, 5, 10, 25, 50} THEN 1 ELSE 0)
                   /\ Len(added) = Cardinality(thanks) + Cardinality(miles)]_vars

\* the store of the end-to-end scenario before logging: one contributor, who
\* is logged in, no meal, no notification
ScenarioStart ==
    /\ me # <<>>
    /\ db.contributors = <<[id |-> me[1].id, points |-> 0, mealsContributed |-> 0]>>
    /\ db.meals = <<>>
    /\ db.notifications = <<>>

\* the scenario's store while its one meal has status s
ScenarioMeal(id, s) ==
    /\ me # <<>>
    /\ db.contributors = <<[id |-> me[1].id, points |-> 0, mealsContributed |-> 0]>>
    /\ Len(db.meals) = 1
    /\ db.meals[1].id = id
    /\ db.meals[1].contributorId = me[1].id
    /\ db.meals[1].status = s
    /\ db.notifications = <<>>

\* C6: end to end, in a store with one contributor C: logging meal A gives
\* status logged; receive(A) gives at_lighthouse; distribute(A, Jane) gives
\* distributed with recipient Jane, C.points = 10, C.mealsContributed = 1 and
\* exactly two notifications for C, one thank-you and one milestone for 1.
C6_EndToEnd ==
    [][/\ \A lh \in SelectableLighthouses :
            (ScenarioStart /\ Submit(<<"A">>, 1, lh))
               => db'.meals = <<[id |-> <<"A">>, contributorId |-> me[1].id,
                                 lighthouseId |-> lh.id, status |-> "logged"]>>
       /\ (ScenarioMeal(<<"A">>, "logged") /\ Receive(<<"A">>))
               => /\ db'.meals[1].status = "at_lighthouse"
                  /\ Len(db'.meals) = 1
       /\ (ScenarioMeal(<<"A">>, "at_lighthouse") /\ Distribute(<<"A">>, "Jane"))
               => /\ Len(db'.meals) = 1
                  /\ db'.meals[1].status = "distributed"
                  /\ db'.meals[1].recipientName = "Jane"
                  /\ db'.contributors =
                        <<[id |-> me[1].id, points |-> 10, mealsContributed |-> 1]>>
                  /\ Len(db'.notifications) = 2
                  /\ \A i \in 1..2 : db'.notifications[i].contributorId = me[1].id
                  /\ {db'.notifications[i].message : i \in 1..2} =
                        {[kind |-> "thanks", meal |-> <<"A">>, count |-> 0],
                         [kind |-> "milestone", meal |-> <<>>, count |-> 1]}]_vars

\* C6 witness: the scenario's last state.
C6_Witness ==
    /\ last = [op |-> "distribute", pre |-> "at_lighthouse"]
    /\ Len(db.meals) = 1
    /\ db.meals[1].id = <<"A">>
    /\ db.meals[1].status = "distributed"
    /\ db.meals[1].recipientName = "Jane"
    /\ Len(db.contributors) = 1
    /\ db.contributors[1].points = 10
    /\ Len(db.notifications) = 2

\* C7: no two records of the meal collection have the same id.
C7_MealIdsUnique ==
    \A i, j \in 1..Len(db.meals) : i # j => db.meals[i].id # db.meals[j].id

\* C7 witness: a bulk logging just ran of which one generated id was already
\* in the store (base A-01 logged alone, then base A with quantity 2).
C7_Witness ==
    /\ last = [op |-> "submit", pre |-> "dup"]
    /\ Len(db.meals) = 2
    /\ {db.meals[1].id, db.meals[2].id} =
          {<<"A", "-", "0", "1">>, <<"A", "-", "0", "2">>}

\* C8: every meal's contributorId is the id of a contributor of the store and
\* its lighthouseId is the id of a lighthouse of the store.
C8_MealReferencesResolve ==
    \A i \in 1..Len(db.meals) :
        /\ db.meals[i].contributorId \in ContributorIds(db)
        /\ db.meals[i].lighthouseId \in LighthouseIds(db)

\* C9: every notification's contributorId is the id of a contributor of the
\* store, and the log changes only in a distribution (or is emptied by reset).
C9_NotificationsFromDistribution ==
    /\ [](\A i \in 1..Len(db.notifications) :
             db.notifications[i].contributorId \in ContributorIds(db))
    /\ [][db'.notifications # db.notifications =>
            \/ last'.op = "distribute"
            \/ last'.op = "reset" /\ db'.notifications = <<>>]_vars

\* C9 witness: a distribution has just added notifications while two
\* contributors are in the store.
C9_Witness ==
    /\ last.op = "distribute"
    /\ Len(db.notifications) > 0
    /\ Len(db.contributors) = 2

ContributorIdsDistinct ==
    \A i, j \in 1..Len(db.contributors) :
        i # j => db.contributors[i].id # db.contributors[j].id

\* C11: addContributor(c) with an id the collection already holds fails with
\* DuplicateIdentity and leaves the collection as it was, and in every
\* reachable state the contributor ids are pairwise distinct.
C11_DuplicateIdentityRejected ==
    /\ []ContributorIdsDistinct
    /\ [][\A c \in ApiContributors, ok \in BOOLEAN :
            (ApiAddContributor(c, ok) /\ c.id \in ContributorIds(db))
               => /\ db'.contributors = db.contributors
                  /\ result' = "DuplicateIdentity"]_vars

\* C12: updateContributor(id, patch) with an id that is not in the store
\* fails with NotFound, reported to the caller, and leaves the store as it was.
C12_UpdateAbsentIsNotFound ==
    [][\A id \in 1..MaxContributors, patch \in ApiPatches, ok \in BOOLEAN :
         (ApiUpdateContributor(id, patch, ok) /\ id \notin ContributorIds(db))
            => /\ db' = db
               /\ result' = "NotFound"]_vars

\* C13: upsertMeal(meal) with an id that is not in the store fails with
\* InvalidReference and inserts nothing when meal.contributorId is not a
\* contributor of the store or meal.lighthouseId is not a lighthouse of it.
C13_InsertChecksReferences ==
    [][\A meal \in ApiMeals, ok \in BOOLEAN :
         (/\ ApiUpsertMeal(meal, ok)
          /\ Find(db.meals, meal.id) = <<>>
          /\ \/ meal.contributorId \notin ContributorIds(db)
             \/ meal.lighthouseId \notin LighthouseIds(db))
            => /\ db'.meals = db.meals
               /\ result' = "InvalidReference"]_vars

\* C14: addNotification puts the new entry at the front and cuts the log to
\* 100 entries: the log never holds more than 100 entries, it is ordered
\* newest first, and when the cap is exceeded it is the oldest entry that goes.
C14_LogCappedNewestFirst ==
    /\ [](/\ Len(db.notifications) <= 100
          /\ \A i, j \in 1..Len(db.notifications) :
                i < j => db.notifications[i].ts > db.notifications[j].ts)
    /\ [][LogNotification
            => /\ db'.notifications[1].ts = now'
               /\ Len(db.notifications) < 100
                     => Tail(db'.notifications) = db.notifications
               /\ Len(db.notifications) = 100
                     => Tail(db'.notifications) =
                           SubSeq(db.notifications, 1, 99)]_vars

\* C14 witness: a notification was added to a full log, and the entries of
\* the first two ticks are gone.
C14_Witness ==
    /\ last = [op |-> "addNotification", pre |-> "full"]
    /\ Len(db.notifications) = 100
    /\ db.notifications[100].ts = 3
    /\ db.notifications[1].ts = 102

\* C15: whatever the store held, after reset() the contributors, the meals
\* and the notifications are empty and the lighthouses are exactly the seeded
\* list.
C15_ResetRestoresSeed ==
    last.op = "reset"
       => /\ db.contributors = <<>>
          /\ db.meals = <<>>
          /\ db.notifications = <<>>
          /\ db.lighthouses = SEED_LIGHTHOUSES

\* C15 witness: reset has just run on a store that held records.
C15_Witness ==
    /\ last = [op |-> "reset", pre |-> "populated"]
    /\ Len(db.lighthouses) = 4
    /\ db.contributors = <<>>

C17_FailedWriteKeepsMutation ==
    [][/\ \A c \in ApiContributors :
            ApiAddContributor(c, FALSE)
               => db'.contributors = Append(db.contributors, c)
       /\ \A id \in 1..MaxContributors, patch \in ApiPatches :
            (ApiUpdateContributor(id, patch, FALSE) /\ id \in ContributorIds(db))
               => /\ Get(db'.contributors, id).points = patch.points
                  /\ Get(db'.contributors, id).mealsContributed =
                        patch.mealsContributed
       /\ \A meal \in ApiMeals :
            ApiUpsertMeal(meal, FALSE)
               => /\ Find(db'.meals, meal.id) # <<>>
                  /\ Get(db'.meals, meal.id).contributorId = meal.contributorId
                  /\ Get(db'.meals, meal.id).lighthouseId = meal.lighthouseId
       /\ ApiAddNotification(1, FALSE)
            => /\ Len(db'.notifications) = Len(db.notifications) + 1
               /\ db'.notifications[1].ts = now'
       /\ ApiReset(FALSE) => db' = EmptyDB
       /\ saved' = "failed" => persisted' = persisted]_vars

\* C17 witness: the write after an upsertMeal failed; the meal is in the
\* store in memory and not in the stored snapshot.
C17_Witness ==
    /\ saved = "failed"
    /\ last = [op |-> "upsertMeal", pre |-> "absent"]
    /\ Len(db.meals) = 1
    /\ loadDB(persisted)[1].meals = <<>>

\* C18: when the write that follows a mutator fails, the caller of the
\* mutator is given PersistenceFailure, so that it can tell the failure from
\* success.
C18_FailedWriteSurfaced ==
    saved = "failed" => result = "PersistenceFailure"

\* the base without the spaces before its first and after its last other
\* character (empty when it holds nothing but spaces)
StripSpaces(b) ==
    LET idx == {i \in 1..Len(b) : b[i] # " "}
    IN  IF idx = {} THEN <<>>
        ELSE SubSeq(b, CHOOSE i \in idx : \A k \in idx : i <= k,
                       CHOOSE j \in idx : \A k \in idx : j >= k)

\* the number a string of digits denotes
RECURSIVE DecimalValue(_)
DecimalValue(s) ==
    IF s = <<>> THEN 0
    ELSE 10 * DecimalValue(SubSeq(s, 1, Len(s) - 1))
           + (CHOOSE d \in 0..9 : DigitChars[d + 1] = s[Len(s)])

\* s is n written in decimal with at least two digits, no more than needed
IsTwoDigitDecimal(s, n) ==
    /\ Len(s) >= 2
    /\ \A k \in 1..Len(s) : s[k] \in Range(DigitChars)
    /\ Len(s) > 2 => s[1] # "0"
    /\ DecimalValue(s) = n

\* ids is what the claim describes for q >= 1, built on the text t of base b:
\* q ids (none when b is blank), pairwise distinct, t itself when q = 1 and
\* otherwise t, "-" and the position written with at least two digits
IdsBuiltOn(t, b, q, ids) ==
    /\ Len(ids) = IF StripSpaces(b) = <<>> THEN 0 ELSE q
    /\ \A i, j \in 1..Len(ids) : i # j => ids[i] # ids[j]
    /\ \A i \in 1..Len(ids) :
          IF q = 1 THEN ids[i] = t
          ELSE /\ Len(ids[i]) > Len(t) + 1
               /\ SubSeq(ids[i], 1, Len(t)) = t
               /\ ids[i][Len(t) + 1] = "-"
               /\ IsTwoDigitDecimal(SubSeq(ids[i], Len(t) + 2, Len(ids[i])), i)

\* C19: for every base b, bases with leading or trailing whitespace included,
\* and every q >= 1, generateIds(b, q) has q elements (none if b trims to
\* empty), pairwise distinct, and its element is b if q = 1 and otherwise b,
\* "-" and the position from 1 written with at least two digits.
C19_IdsBuiltOnBase ==
    (last.op = "generateBulkIds" /\ args[2] >= 1)
       => IdsBuiltOn(args[1], args[1], args[2], result)

\* C19 as amended: the same, with the trimmed base in the place of b in the
\* elements.
C19_IdsBuiltOnTrimmedBase ==
    (last.op = "generateBulkIds" /\ args[2] >= 1)
       => IdsBuiltOn(StripSpaces(args[1]), args[1], args[2], result)

\* C19 witness: ten ids were generated from a base with a space on each side.
C19_Witness ==
    /\ last.op = "generateBulkIds"
    /\ args = << <<" ", "A", " ">>, 10 >>
    /\ Len(result) = 10
    /\ result[10] = <<"A", "-", "1", "0">>

\* the bases of the logging form that hold nothing but spaces
BlankBases == {b \in Bases : StripSpaces(b) = <<>>}

\* C20: when the base trims to empty, generateIds returns the empty sequence
\* for every quantity, and logging with such a base is a rejection: the store
\* is left unchanged.
C20_BlankBaseRejected ==
    [][\A qr \in BlankBases, quantity \in 1..MaxQty, lh \in SelectableLighthouses :
         (last'.op = "submit" /\ Submit(qr, quantity, lh))
            => /\ \A q \in GenQuantities : generateBulkIds(qr, q) = <<>>
               /\ db' = db
               /\ persisted' = persisted]_vars

\* C20 witness: Save meal with a blank base has just been rejected on a store
\* that holds meals.
C20_Witness ==
    /\ last = [op |-> "submit", pre |-> "rejected"]
    /\ db.meals # <<>>

\* the one-to-one maps of 1..n onto itself
Perms(n) == {p \in [1..n -> 1..n] : \A i, j \in 1..n : i # j => p[i] # p[j]}

\* a listed lighthouse without its dist
WithoutDist(r) == [f \in (DOMAIN r) \ {"dist"} |-> r[f]]

\* the distance from o to a lighthouse
DistanceFrom(o, lh) == haversineKm(o, [lat |-> lh.lat, lng |-> lh.lng])

\* C21: with an origin, the listing holds every lighthouse of the input
\* exactly once, each with its distance from the origin, in ascending order of
\* that distance, and lighthouses at equal distance in their input order.
C21_RankedByDistanceStable ==
    (last.op = "enriched" /\ args.coords # <<>>)
       => LET L == args.lighthouses
              o == args.coords[1]
          IN  /\ Len(result) = Len(L)
              /\ \A k \in 1..Len(result) :
                    result[k].dist = <<DistanceFrom(o, result[k])>>
              /\ \E p \in Perms(Len(L)) :
                    /\ \A k \in 1..Len(L) : WithoutDist(result[k]) = L[p[k]]
                    /\ \A k, m \in 1..Len(L) :
                          k < m => \/ result[k].dist[1] < result[m].dist[1]
                                   \/ /\ result[k].dist[1] = result[m].dist[1]
                                      /\ p[k] < p[m]

\* C21 witness: a list of three was listed from a place on the equator; the
\* farthest, given second, is listed last, and the two at equal distance keep
\* their order.
C21_Witness ==
    /\ last.op = "enriched"
    /\ args.coords = <<[lat |-> 0, lng |-> 250000]>>
    /\ Len(result) = 3
    /\ args.lighthouses[2].id = "lh_cpt"
    /\ result[1].id = "lh_north"
    /\ result[2].id = "lh_jhb"
    /\ result[3].id = "lh_cpt"
    /\ result[1].dist = result[2].dist
    /\ result[2].dist[1] < result[3].dist[1]

\* C22: without an origin (location denied, timed out or never captured) the
\* listing is the given list in the given order, each entry with an absent
\* distance, and nothing fails; the profile is still created, without a
\* coordinate, and Save meal still logs the meals at the lighthouse selected.
C22_NoOriginKeepsOrder ==
    /\ (last.op = "enriched" /\ args.coords = <<>>)
          => /\ Len(result) = Len(args.lighthouses)
             /\ \A k \in 1..Len(result) :
                   /\ WithoutDist(result[k]) = args.lighthouses[k]
                   /\ result[k].dist = <<>>
    /\ (last.op = "onComplete" /\ args.coords = <<>>)
          => /\ result.lat = <<>>
             /\ result.lng = <<>>
             /\ result.points = 0
             /\ result.mealsContributed = 0
    /\ (last.op = "autoSelect" /\ args.coords = <<>>)
          => result = args.selectedLH
    /\ (last.op = "handleSubmit" /\ args.coords = <<>>)
          => /\ Len(result.meals) = MaxQty
             /\ \A k \in 1..Len(result.meals) :
                   /\ result.meals[k].status = "logged"
                   /\ result.meals[k].lighthouseId = args.selectedLH[1].id
                   /\ result.meals[k].contributorId = 1

\* C22 witness: a list of three that is not in order of distance from
\* anywhere near was listed without an origin.
C22_Witness ==
    /\ last.op = "enriched"
    /\ args.coords = <<>>
    /\ Len(result) = 3
    /\ result[1].id = "lh_pta"
    /\ result[2].id = "lh_cpt"
    /\ result[3].id = "lh_jhb"
    /\ result[3].dist = <<>>

\* C23: the lighthouse auto-selected for a contributor with a coordinate is
\* the first entry of the listing ranked from that coordinate: a lighthouse of
\* least distance, the earliest of the input among those; with an empty list
\* nothing is selected.
C23_AutoSelectsNearest ==
    (last.op = "autoSelect" /\ args.selectedLH = <<>>)
       => LET L == args.lighthouses
          IN  /\ L = <<>> => result = <<>>
              /\ (/\ L # <<>> /\ args.coords # <<>>
                  /\ args.coords[1].lat # 0 /\ args.coords[1].lng # 0)
                    => result # <<>>
              /\ result # <<>>
                    => /\ args.coords # <<>>
                       /\ result[1] = WithoutDist(enriched(L, args.coords)[1])
                       /\ \E i \in 1..Len(L) :
                             /\ L[i] = result[1]
                             /\ \A j \in 1..Len(L) :
                                   LET di == DistanceFrom(args.coords[1], L[i])
                                       dj == DistanceFrom(args.coords[1], L[j])
                                   IN  dj > di \/ (dj = di /\ j >= i)

\* C23 witness: of a farther lighthouse and two at one nearer place, the
\* earlier of the two was selected.
C23_Witness ==
    /\ last.op = "autoSelect"
    /\ args.selectedLH = <<>>
    /\ args.coords = <<[lat |-> -300000, lng |-> 250000]>>
    /\ Len(args.lighthouses) = 3
    /\ args.lighthouses[1].id = "lh_cpt"
    /\ args.lighthouses[2].id = "lh_twin"
    /\ args.lighthouses[3].id = "lh_jhb"
    /\ result # <<>>
    /\ result[1].id = "lh_twin"

\* C24: the leaderboard holds min(5, number of contributors) contributors of
\* the collection, in descending order of points and, at equal points, in
\* collection order; every contributor left out ranks behind every one
\* listed; the collection is left as it was.
C24_LeaderboardTopFive ==
    last.op = "topContributors"
       => LET C == args
              T == result.top
          IN  /\ Len(T) = IF Len(C) < 5 THEN Len(C) ELSE 5
              /\ \A k \in 1..Len(T) : T[k].id \in 1..Len(C) /\ T[k] = C[T[k].id]
              /\ \A k, m \in 1..Len(T) :
                    k < m => \/ T[k].points > T[m].points
                             \/ /\ T[k].points = T[m].points
                                /\ T[k].id < T[m].id
              /\ \A j \in 1..Len(C) :
                    (\A k \in 1..Len(T) : T[k].id # j)
                       => \A k \in 1..Len(T) :
                             \/ C[j].points < T[k].points
                             \/ /\ C[j].points = T[k].points
                                /\ j > T[k].id
              /\ result.contributors = C

\* C24 witness: of six contributors with points 0, 10, 0, 20, 10, 0 the
\* leaderboard lists the 4th, 2nd, 5th, 1st and 3rd.
C24_Witness ==
    /\ last.op = "topContributors"
    /\ Len(args) = 6
    /\ [k \in 1..6 |-> args[k].points] = <<0, 10, 0, 20, 10, 0>>
    /\ [k \in 1..Len(result.top) |-> result.top[k].id] = <<4, 2, 5, 1, 3>>

\* C25: in every reachable state the badges shown for a contributor are
\* exactly the thresholds t of 1, 5, 10, 25, 50 with t <= the mealsContributed
\* the store holds for that contributor.
C25_BadgesFromMealsContributed ==
    (me # <<>> /\ Find(db.contributors, me[1].id) # <<>>)
       => Range(badges(delivered(db, me[1]))) =
             {t \in {1, 5, 10, 25, 50} :
                 t <= Get(db.contributors, me[1].id).mealsContributed}

\* C28: the contributor record the session holds agrees with the store: in
\* every state with a session, that contributor is in the store and the
\* points shown for it are its points in the store.
C28_SessionAgreesWithStore ==
    me # <<>>
       => /\ Find(db.contributors, me[1].id) # <<>>
          /\ pointsShown(me[1]) = Get(db.contributors, me[1].id).points

\* C30: in every reachable state every contributor's points are 10 times
\* its mealsContributed.
C30_PointsTenPerMeal ==
    \A i \in 1..Len(db.contributors) :
        db.contributors[i].points = 10 * db.contributors[i].mealsContributed

\* a contributor has been credited with two distributions
C30_Witness ==
    /\ last.op = "distribute"
    /\ \E i \in 1..Len(db.contributors) :
          db.contributors[i].mealsContributed = 2

\* the meals of d2 whose id is not in d
NewMeals(d, d2) ==
    {i \in 1..Len(d2.meals) : Find(d.meals, d2.meals[i].id) = <<>>}

\* C29: logging with a non-empty base and quantity q, when none of the q
\* generated ids is in the store, adds exactly q meals, each logged, with the
\* logging contributor's id and the selected lighthouse's id; the meals
\* already in the store, the contributors and the notification log are
\* unchanged.
C29_LoggingAddsExactlyQ ==
    [][(last'.op = "submit" /\ last'.pre = "new")
          => \A qr \in Bases, quantity \in 1..MaxQty, lh \in SelectableLighthouses :
                Submit(qr, quantity, lh)
                   => /\ Len(db'.meals) = Len(db.meals) + quantity
                      /\ Cardinality(NewMeals(db, db')) = quantity
                      /\ \A i \in NewMeals(db, db') :
                            /\ db'.meals[i].status = "logged"
                            /\ db'.meals[i].contributorId = me[1].id
                            /\ db'.meals[i].lighthouseId = lh.id
                      /\ \A i \in 1..Len(db.meals) :
                            Find(db'.meals, db.meals[i].id) = <<db.meals[i]>>
                      /\ db'.contributors = db.contributors
                      /\ db'.notifications = db.notifications]_vars

\* two meals have just been logged in one submission, next to nothing else
C29_Witness ==
    /\ last.op = "submit"
    /\ last.pre = "new"
    /\ Len(db.meals) = 2
    /\ {db.meals[i].id : i \in 1..2} = Range(generateBulkIds(<<"A">>, 2))
    /\ \A i \in 1..2 : db.meals[i].status = "logged"

\* between the snapshots d and d2, every meal that became distributed and
\* whose contributor is in the store came with that contributor's raised
\* counters and with the thank-you notification for the meal
VisibleTogether(d, d2) ==
    \A i \in 1..Len(d2.meals) :
        LET m == d2.meals[i]
        IN  (/\ m.status = "distributed"
             /\ StatusOf(d, m.id) # "distributed"
             /\ Find(d.contributors, m.contributorId) # <<>>)
               => /\ Find(d2.contributors, m.contributorId) # <<>>
                  /\ Get(d2.contributors, m.contributorId).mealsContributed
                        > Get(d.contributors, m.contributorId).mealsContributed
                  /\ Get(d2.contributors, m.contributorId).points
                        > Get(d.contributors, m.contributorId).points
                  /\ \E k \in 1..Len(Added(d, d2)) :
                        /\ Added(d, d2)[k].contributorId = m.contributorId
                        /\ Added(d, d2)[k].message.kind = "thanks"
                        /\ Added(d, d2)[k].message.meal = m.id

\* C26: the updates of one distribute become visible together: whenever the
\* rendered snapshot, which every operation reads, or the persisted snapshot
\* comes to show a meal as distributed, the same step shows the owning
\* contributor's counters raised and the thank-you notification recorded.
C26_DistributeVisibleTogether ==
    [][/\ VisibleTogether(db, db')
       /\ (loadDB(persisted) # <<>> /\ loadDB(persisted') # <<>>)
             => VisibleTogether(loadDB(persisted)[1], loadDB(persisted')[1])
       /\ (pending # <<>> /\ ~Render) => (db' = db /\ persisted' = persisted)]_vars

\* a render has just shown a distribution whose updaters were queued: meal,
\* counters and thank-you notification are there
C26_Witness ==
    /\ last.op = "render"
    /\ loadDB(persisted) # <<>>
    /\ \E i \in 1..Len(db.meals) :
          /\ db.meals[i].status = "distributed"
          /\ Find(loadDB(persisted)[1].meals, db.meals[i].id) = <<db.meals[i]>>
          /\ Find(db.contributors, db.meals[i].contributorId) # <<>>
          /\ Get(db.contributors, db.meals[i].contributorId).mealsContributed >= 1
          /\ \E k \in 1..Len(db.notifications) :
                /\ db.notifications[k].message.kind = "thanks"
                /\ db.notifications[k].message.meal = db.meals[i].id

\* the ids of c's meals that the queued updaters us mark distributed
QueuedFor(d, us, c) ==
    {k \in 1..Len(us) :
        /\ us[k].api = "upsertMeal"
        /\ us[k].arg.status = "distributed"
        /\ Find(d.meals, us[k].arg.id) # <<>>
        /\ Get(d.meals, us[k].arg.id).contributorId = c}

\* C27: each distribution adds 1 meal and 10 points to what the store holds
\* when the update is applied: when the updates of n invocations for n
\* distinct undistributed meals of one contributor are applied, the
\* contributor gains exactly n meals and 10n points, whichever snapshot the
\* later handlers had read.
C27_EachDistributionCounts ==
    [][Render
          => \A c \in ContributorIds(db) :
                LET ks == QueuedFor(db, pending, c)
                    n  == Cardinality(ks)
                IN  (/\ \A k \in ks :
                           StatusOf(db, pending[k].arg.id) # "distributed"
                     /\ \A k, l \in ks :
                           pending[k].arg.id = pending[l].arg.id => k = l)
                       => /\ Get(db'.contributors, c).mealsContributed
                                = Get(db.contributors, c).mealsContributed + n
                          /\ Get(db'.contributors, c).points
                                = Get(db.contributors, c).points + 10 * n]_vars

\* C31: in every reachable state each contributor's mealsContributed is the
\* number of meals in the store with that contributorId and status
\* distributed.
C31_CounterIsDeliveredCount ==
    \A i \in 1..Len(db.contributors) :
        db.contributors[i].mealsContributed
            = delivered(db, db.contributors[i])

\* C32: a meal's contributorId and its other creation-time fields are fixed
\* at creation: no step other than a reset changes the contributorId or the
\* lighthouseId of a meal that stays in the store.
C32_CreationFieldsFixed ==
    [][last'.op # "reset"
          => \A i \in 1..Len(db.meals) :
                LET m2 == Find(db'.meals, db.meals[i].id)
                IN  m2 # <<>>
                       => /\ m2[1].contributorId = db.meals[i].contributorId
                          /\ m2[1].lighthouseId = db.meals[i].lighthouseId]_vars

\* C33: receive or distribute with an id that is not in the meal collection
\* leaves the store as it was, in the app and in localStorage: no meal is
\* created, no contributor credited, no notification added.
C33_UnknownIdChangesNothing ==
    [][(last'.op \in {"receive", "distribute"} /\ last'.pre = "absent")
          => (db' = db /\ persisted' = persisted)]_vars

\* lh is a lighthouse of L of least distance from o
Nearest(o, L, lh) ==
    \E i \in 1..Len(L) :
        /\ L[i] = lh
        /\ \A j \in 1..Len(L) : DistanceFrom(o, L[j]) >= DistanceFrom(o, L[i])

\* C34: for a contributor with a stored coordinate, latitude 0 or longitude 0
\* included, a non-empty lighthouse list and no lighthouse selected, the
\* nearest lighthouse is auto-selected and the listing is in ascending order
\* of distance; a lighthouse already selected is never replaced.
C34_AutoSelectForAnyCoordinate ==
    /\ (last.op = "autoSelect" /\ args.selectedLH # <<>>)
          => result = args.selectedLH
    /\ (/\ last.op = "autoSelect" /\ args.selectedLH = <<>>
        /\ args.coords # <<>> /\ args.lighthouses # <<>>)
          => /\ result # <<>>
             /\ Nearest(args.coords[1], args.lighthouses, result[1])
    /\ (last.op = "finder" /\ args.coords # <<>>)
          => \A i, j \in 1..Len(result) :
                i < j => /\ result[i].dist # <<>>
                         /\ result[j].dist # <<>>
                         /\ result[i].dist[1] <= result[j].dist[1]
=========================================================================
